---- MODULE Spec2Model ----
(***************************************************************************)
(* FLIR capture scripts: lab2-1_single_frame.py (single-frame flow) and    *)
(* lab2-2_realtime_with_save.py (continuous flow with periodic save).      *)
(*                                                                         *)
(* Three specifications share the variables below:                         *)
(*   Spec      the two capture flows, one SDK call (or local step) per     *)
(*             action, with exceptions and try/finally control flow;       *)
(*   NormSpec  convert_image_to_bgr applied to every letter-case variant   *)
(*             of the format tags;                                         *)
(*   NegSpec   configure_camera_resolution_fps applied to requested and    *)
(*             device-reported values drawn from bounded sets.             *)
(***************************************************************************)
EXTENDS Integers, Sequences, FiniteSets, TLC

(***************************************************************************)
(* Bounds of the model.                                                    *)
(***************************************************************************)
\* complete frames processed by the continuous loop before the model stops
MaxFrames == 35
\* incomplete frames delivered in one run
MaxIncomplete == 2
\* largest device-reported maximum of Width / Height in NegSpec
MaxDim == 7

(***************************************************************************)
(* Strings are sequences of one-character strings, so that upper() and     *)
(* the `in' substring test are computed rather than assumed.               *)
(***************************************************************************)
LowerAlpha ==
  <<"a","b","c","d","e","f","g","h","i","j","k","l","m",
    "n","o","p","q","r","s","t","u","v","w","x","y","z">>

UpperAlpha ==
  <<"A","B","C","D","E","F","G","H","I","J","K","L","M",
    "N","O","P","Q","R","S","T","U","V","W","X","Y","Z">>

\* str.upper() on one character
UpperChar(c) ==
  IF \E i \in 1..26 : LowerAlpha[i] = c
  THEN UpperAlpha[CHOOSE i \in 1..26 : LowerAlpha[i] = c]
  ELSE c

\* str.lower() on one character (used only to enumerate letter-case variants)
LowerChar(c) ==
  IF \E i \in 1..26 : UpperAlpha[i] = c
  THEN LowerAlpha[CHOOSE i \in 1..26 : UpperAlpha[i] = c]
  ELSE c

\* fmt_name.upper()
upper(s) == [i \in 1..Len(s) |-> UpperChar(s[i])]

\* Python's `needle in hay' on strings
In(needle, hay) ==
  \E i \in 0..(Len(hay) - Len(needle)) :
     SubSeq(hay, i + 1, i + Len(needle)) = needle

\* the literals of the dispatch chain
MONO8 == <<"M","O","N","O","8">>
RGB8 == <<"R","G","B","8">>
BGR8 == <<"B","G","R","8">>
BAYERRG8 == <<"B","A","Y","E","R","R","G","8">>
BAYERGB8 == <<"B","A","Y","E","R","G","B","8">>
BAYERGR8 == <<"B","A","Y","E","R","G","R","8">>
BAYERBG8 == <<"B","A","Y","E","R","B","G","8">>

\* symbolic PixelFormat names as the device reports them
Mono8 == <<"M","o","n","o","8">>
RGB8Packed == <<"R","G","B","8","P","a","c","k","e","d">>
BayerRG8 == <<"B","a","y","e","r","R","G","8">>
BayerGB8 == <<"B","a","y","e","r","G","B","8">>
BayerGR8 == <<"B","a","y","e","r","G","R","8">>
BayerBG8 == <<"B","a","y","e","r","B","G","8">>
\* a named format outside the dispatch chain
YUV422 == <<"Y","U","V","4","2","2">>

\* fmt_name stays None when GetPixelFormatName is missing (AttributeError)
NoName == <<>>

(***************************************************************************)
(* cv2.cvtColor as the conversion codes used by the scripts behave: each   *)
(* code accepts one source layout and raises cv2.error on any other; the   *)
(* result has 3 channels and the source's height and width.                *)
(***************************************************************************)
SrcChannels(code) ==
  IF code = "COLOR_RGB2BGR" THEN 3 ELSE 1

Raised == [raised |-> TRUE, ch |-> 0, h |-> 0, w |-> 0, branch |-> "none"]

cvtColor(img, code) ==
  IF img.ch = SrcChannels(code)
  THEN [raised |-> FALSE, ch |-> 3, h |-> img.h, w |-> img.w, branch |-> code]
  ELSE [Raised EXCEPT !.branch = code]

\* img.ndim of the array GetNDArray returns
ndim(img) == IF img.ch = 1 THEN 2 ELSE 3

\* the shape-only fallback used by the unnamed and the unhandled-name branches
GenericConversion(img) ==
  IF ndim(img) = 2
  THEN cvtColor(img, "COLOR_GRAY2BGR")
  ELSE cvtColor(img, "COLOR_RGB2BGR")

\* convert_image_to_bgr: the ordered if/elif chain on fmt_name.upper()
convert_image_to_bgr(img) ==
  IF img.name # NoName
  THEN LET fmt_name_upper == upper(img.name) IN
       IF In(MONO8, fmt_name_upper) THEN cvtColor(img, "COLOR_GRAY2BGR")
       ELSE IF In(RGB8, fmt_name_upper) THEN cvtColor(img, "COLOR_RGB2BGR")
       ELSE IF In(BGR8, fmt_name_upper)
         THEN [raised |-> FALSE, ch |-> img.ch, h |-> img.h, w |-> img.w,
               branch |-> "passthrough"]
       ELSE IF In(BAYERRG8, fmt_name_upper) THEN cvtColor(img, "COLOR_BAYER_RG2BGR")
       ELSE IF In(BAYERGB8, fmt_name_upper) THEN cvtColor(img, "COLOR_BAYER_GB2BGR")
       ELSE IF In(BAYERGR8, fmt_name_upper) THEN cvtColor(img, "COLOR_BAYER_GR2BGR")
       ELSE IF In(BAYERBG8, fmt_name_upper) THEN cvtColor(img, "COLOR_BAYER_BG2BGR")
       ELSE GenericConversion(img)
  ELSE GenericConversion(img)

\* formats whose buffer GetNDArray returns as height x width x 3
ThreeChannelFormats == {RGB8, BGR8, upper(RGB8Packed)}

\* number of channels of the buffer a device in the given format delivers
LayoutOf(name) ==
  IF upper(name) \in ThreeChannelFormats THEN 3 ELSE 1

(***************************************************************************)
(* configure_camera_resolution_fps.  A device is a record of the values    *)
(* its nodes report; the result is, per property, the sequence of values   *)
(* passed to SetValue.                                                     *)
(***************************************************************************)
Min(a, b) == IF a <= b THEN a ELSE b

\* variant of NegotiateSize without the even-value step
NegotiateSize_NoEven(requested, max) == Min(requested, max)

\* clamp to the camera maximum, then force an even value
NegotiateSize(requested, max) ==
  LET clamped == Min(requested, max)
  IN  IF clamped % 2 = 1 THEN clamped - 1 ELSE clamped

\* the guard of the width/height block
SizeWritable(d) == d.widthWritable /\ d.heightWritable

\* the guard of the ROI-centering block
OffsetsWritable(d) == d.offsetXWritable /\ d.offsetYWritable

\* variant of CenterOffset that writes the maximum offset itself
CenterOffset_NoHalving(max_offset) == max_offset

\* ROI centre for one axis
CenterOffset(max_offset) == max_offset \div 2

\* clamp the requested rate to the camera maximum
NegotiateFps(requested, max_fps) == Min(requested, max_fps)

NoWrites ==
  [Width |-> <<>>, Height |-> <<>>, OffsetX |-> <<>>, OffsetY |-> <<>>,
   AcquisitionFrameRateEnable |-> <<>>, AcquisitionFrameRate |-> <<>>]

configure_camera_resolution_fps(r, d) ==
  [Width   |-> IF SizeWritable(d)
               THEN <<NegotiateSize(r.width, d.maxWidth)>> ELSE <<>>,
   Height  |-> IF SizeWritable(d)
               THEN <<NegotiateSize(r.height, d.maxHeight)>> ELSE <<>>,
   OffsetX |-> IF OffsetsWritable(d)
               THEN <<CenterOffset(d.maxOffsetX)>> ELSE <<>>,
   OffsetY |-> IF OffsetsWritable(d)
               THEN <<CenterOffset(d.maxOffsetY)>> ELSE <<>>,
   AcquisitionFrameRateEnable |-> IF d.fpsEnableWritable THEN <<TRUE>> ELSE <<>>,
   AcquisitionFrameRate |-> IF d.fpsWritable
               THEN <<NegotiateFps(r.fps, d.maxFps)>> ELSE <<>>]

\* variant of ShouldSave that tests the count before the increment
ShouldSave_OffByOne(count, n) == (count - 1) % n = 0

\* the save cadence test of the continuous loop
ShouldSave(count, n) == count % n = 0

\* set_pixel_format: first readable entry in the order of preference
PreferredFormats == <<RGB8Packed, BGR8, Mono8>>

set_pixel_format(current, writable, readable) ==
  IF ~writable THEN current
  ELSE IF \E i \in 1..Len(PreferredFormats) : PreferredFormats[i] \in readable
  THEN PreferredFormats[CHOOSE i \in 1..Len(PreferredFormats) :
          /\ PreferredFormats[i] \in readable
          /\ \A j \in 1..(i - 1) : PreferredFormats[j] \notin readable]
  ELSE current

(***************************************************************************)
(* State.                                                                  *)
(***************************************************************************)
VARIABLES
  pc,            \* position in the script
  flow,          \* "single" (lab2_single_frame) or "continuous" (realtime_view_and_save)
  save_every_n_frames,
  req,           \* width / height / fps arguments
  dev,           \* what the device's nodes report
  writes,        \* values passed to SetValue, per property
  pixfmt,        \* the device's current PixelFormat
  nameApi,       \* whether ImagePtr has GetPixelFormatName
  numCams,       \* cam_list.GetSize()
  sessionHeld,   \* System instance acquired and not released
  listHeld,      \* cam_list filled and not cleared
  camInit,       \* device open: Init() done and DeInit() not
  streaming,     \* acquisition started and not stopped
  acqMode,       \* last value written to AcquisitionMode
  image,         \* image_result: the last fetched frame
  frame_bgr,     \* the converted frame (NoFrame when None / not yet assigned)
  frame_count,
  incompletes,   \* incomplete frames delivered so far
  saved,         \* frame indexes passed to cv2.imwrite by the loop
  displayed,     \* number of cv2.imshow calls
  fileWritten,   \* single-frame flow: cv2.imwrite(output_path, frame) done
  exc,           \* the exception in flight ("none" when there is none)
  teardown,      \* cleanup calls attempted so far, with their outcome
  modeRejected,  \* IsWritable(AcquisitionMode) was found false
  fetches,       \* number of GetNextImage calls issued
  stop,          \* the 'q' key has been pressed
  keyChecks      \* number of cv2.waitKey polls

vars ==
  <<pc, flow, save_every_n_frames, req, dev, writes, pixfmt, nameApi, numCams,
    sessionHeld, listHeld, camInit, streaming, acqMode, image, frame_bgr,
    frame_count, incompletes, saved, displayed, fileWritten, exc, teardown,
    modeRejected, fetches, stop, keyChecks>>

NoFrame == [raised |-> FALSE, ch |-> 0, h |-> 0, w |-> 0, branch |-> "none"]

NoImage ==
  [present |-> FALSE, incomplete |-> FALSE, releases |-> 0,
   name |-> NoName, ch |-> 0, h |-> 0, w |-> 0]

\* the arguments at the call site of realtime_view_and_save
CallSiteRequest == [width |-> 1280, height |-> 720, fps |-> 30]

\* cadences tried for save_every_n_frames (10 is the call site's)
SaveCadences == {1, 3, 10}

\* PixelFormat a device may start in
DeviceFormats == {RGB8, Mono8, BayerRG8, BayerGB8, YUV422}

Device(ww, hw, mw, mh, nw, nh, oxw, oyw, mox, moy, few, fw, mf, nf) ==
  [widthWritable |-> ww, heightWritable |-> hw,
   maxWidth |-> mw, maxHeight |-> mh, minWidth |-> nw, minHeight |-> nh,
   offsetXWritable |-> oxw, offsetYWritable |-> oyw,
   maxOffsetX |-> mox, maxOffsetY |-> moy,
   fpsEnableWritable |-> few, fpsWritable |-> fw, maxFps |-> mf, minFps |-> nf]

\* devices the capture flows run against
FlowDevices ==
  { Device(TRUE, TRUE, 1440, 1080, 32, 32, TRUE, TRUE, 10, 20, TRUE, TRUE, 60, 1),
    Device(TRUE, TRUE, 1279, 719, 32, 32, TRUE, FALSE, 10, 20, FALSE, TRUE, 24, 1) }

\* the state shared by the initial states of the three specifications
Constructed ==
  /\ writes = NoWrites
  /\ numCams = 0
  /\ sessionHeld = FALSE /\ listHeld = FALSE
  /\ camInit = FALSE /\ streaming = FALSE
  /\ acqMode = "unset"
  /\ frame_bgr = NoFrame
  /\ frame_count = 0 /\ incompletes = 0
  /\ saved = <<>> /\ displayed = 0
  /\ fileWritten = FALSE
  /\ exc = "none"
  /\ teardown = <<>>
  /\ modeRejected = FALSE
  /\ fetches = 0
  /\ stop = FALSE
  /\ keyChecks = 0

Init ==
  /\ pc = "GetCameras"
  /\ flow \in {"single", "continuous"}
  /\ save_every_n_frames \in (IF flow = "continuous" THEN SaveCadences ELSE {10})
  /\ req = CallSiteRequest
  /\ dev \in (IF flow = "continuous" THEN FlowDevices
              ELSE {CHOOSE d \in FlowDevices : d.offsetYWritable})
  /\ pixfmt \in DeviceFormats
  /\ nameApi \in BOOLEAN
  /\ image = NoImage
  /\ Constructed

(***************************************************************************)
(* Control flow helpers.                                                   *)
(***************************************************************************)
\* where an exception raised inside the outer try block continues
OuterFinally == IF flow = "continuous" THEN "EndAcquisition" ELSE "DeInit"

Attempt(step, ok) == teardown' = Append(teardown, [step |-> step, ok |-> ok])

(***************************************************************************)
(* Step 1: system = GetInstance(); cam_list = GetCameras(); size check.    *)
(***************************************************************************)
GetCameras ==
  /\ pc = "GetCameras"
  /\ sessionHeld' = TRUE
  /\ listHeld' = TRUE
  /\ \E n \in 0..1 :
       /\ numCams' = n
       /\ pc' = IF n = 0 THEN "NoCameraClear" ELSE "Init"
  /\ UNCHANGED <<flow, modeRejected, fetches, stop, keyChecks,
                 save_every_n_frames, req, dev, writes, pixfmt, nameApi,
                 camInit, streaming, acqMode, image, frame_bgr, frame_count,
                 incompletes, saved, displayed, fileWritten, exc, teardown>>

\* no camera: cam_list.Clear()
NoCameraClear ==
  /\ pc = "NoCameraClear"
  /\ \E ok \in BOOLEAN :
       /\ Attempt("Clear", ok)
       /\ listHeld' = IF ok THEN FALSE ELSE listHeld
       /\ exc' = IF ok THEN exc ELSE "SpinnakerException"
       /\ pc' = IF ok THEN "NoCameraRelease" ELSE "done"
  /\ UNCHANGED <<flow, modeRejected, fetches, stop, keyChecks,
                 save_every_n_frames, req, dev, writes, pixfmt, nameApi,
                 numCams, sessionHeld, camInit, streaming, acqMode, image,
                 frame_bgr, frame_count, incompletes, saved, displayed,
                 fileWritten>>

\* no camera: system.ReleaseInstance(); return
NoCameraRelease ==
  /\ pc = "NoCameraRelease"
  /\ \E ok \in BOOLEAN :
       /\ Attempt("ReleaseInstance", ok)
       /\ sessionHeld' = IF ok THEN FALSE ELSE sessionHeld
       /\ exc' = IF ok THEN exc ELSE "SpinnakerException"
  /\ pc' = "done"
  /\ UNCHANGED <<flow, modeRejected, fetches, stop, keyChecks,
                 save_every_n_frames, req, dev, writes, pixfmt, nameApi,
                 numCams, listHeld, camInit, streaming, acqMode, image,
                 frame_bgr, frame_count, incompletes, saved, displayed,
                 fileWritten>>

(***************************************************************************)
(* Inside the try block.                                                   *)
(***************************************************************************)
\* cam.Init()
CamInit ==
  /\ pc = "Init"
  /\ \E ok \in BOOLEAN :
       /\ camInit' = ok
       /\ exc' = IF ok THEN exc ELSE "SpinnakerException"
       /\ pc' = IF ok THEN "SetPixelFormat" ELSE OuterFinally
  /\ UNCHANGED <<flow, modeRejected, fetches, stop, keyChecks,
                 save_every_n_frames, req, dev, writes, pixfmt, nameApi,
                 numCams, sessionHeld, listHeld, streaming, acqMode, image,
                 frame_bgr, frame_count, incompletes, saved, displayed,
                 fileWritten, teardown>>

\* debug_pixel_format; set_pixel_format; debug_pixel_format
SetPixelFormat ==
  /\ pc = "SetPixelFormat"
  /\ \E writable \in BOOLEAN, readable \in SUBSET {RGB8Packed, BGR8, Mono8} :
       pixfmt' = set_pixel_format(pixfmt, writable, readable)
  /\ pc' = IF flow = "continuous" THEN "Configure" ELSE "SelectSingleFrame"
  /\ UNCHANGED <<flow, modeRejected, fetches, stop, keyChecks,
                 save_every_n_frames, req, dev, writes, nameApi, numCams,
                 sessionHeld, listHeld, camInit, streaming, acqMode, image,
                 frame_bgr, frame_count, incompletes, saved, displayed,
                 fileWritten, exc, teardown>>

\* configure_camera_resolution_fps(cam, width, height, fps)
Configure ==
  /\ pc = "Configure"
  /\ writes' = configure_camera_resolution_fps(req, dev)
  /\ pc' = "StartContinuous"
  /\ UNCHANGED <<flow, modeRejected, fetches, stop, keyChecks,
                 save_every_n_frames, req, dev, pixfmt, nameApi, numCams,
                 sessionHeld, listHeld, camInit, streaming, acqMode, image,
                 frame_bgr, frame_count, incompletes, saved, displayed,
                 fileWritten, exc, teardown>>

\* start_continuous_mode(cam); frame_count = 0
StartContinuous ==
  /\ pc = "StartContinuous"
  /\ \E writable \in BOOLEAN, ok \in BOOLEAN :
       IF ~writable
       THEN /\ pc' = "GetNextImage"
            /\ UNCHANGED <<acqMode, streaming, exc>>
            /\ modeRejected' = TRUE
       ELSE /\ acqMode' = "Continuous"
            /\ streaming' = ok
            /\ UNCHANGED modeRejected
            /\ exc' = IF ok THEN exc ELSE "SpinnakerException"
            /\ pc' = IF ok THEN "GetNextImage" ELSE "EndAcquisition"
  /\ UNCHANGED <<flow, fetches, stop, keyChecks,
                 save_every_n_frames, req, dev, writes, pixfmt, nameApi,
                 numCams, sessionHeld, listHeld, camInit, image, frame_bgr,
                 frame_count, incompletes, saved, displayed, fileWritten,
                 teardown>>

\* acquire_single_frame up to and including BeginAcquisition
SelectSingleFrame ==
  /\ pc = "SelectSingleFrame"
  /\ \E writable \in BOOLEAN, ok \in BOOLEAN :
       IF ~writable
       THEN /\ pc' = "DeInit"         \* return None; frame is None: return
            /\ UNCHANGED <<acqMode, streaming, exc>>
            /\ modeRejected' = TRUE
       ELSE /\ acqMode' = "SingleFrame"
            /\ streaming' = ok
            /\ UNCHANGED modeRejected
            /\ exc' = IF ok THEN exc ELSE "SpinnakerException"
            /\ pc' = IF ok THEN "GetNextImage" ELSE "DeInit"
  /\ UNCHANGED <<flow, fetches, stop, keyChecks,
                 save_every_n_frames, req, dev, writes, pixfmt, nameApi,
                 numCams, sessionHeld, listHeld, camInit, image, frame_bgr,
                 frame_count, incompletes, saved, displayed, fileWritten,
                 teardown>>

(***************************************************************************)
(* Fetch, convert, release.                                                *)
(***************************************************************************)
\* the frame a device in format pixfmt delivers
Fetched(incomplete) ==
  [present |-> TRUE, incomplete |-> incomplete, releases |-> 0,
   name |-> IF nameApi THEN pixfmt ELSE NoName,
   ch |-> LayoutOf(pixfmt), h |-> req.height, w |-> req.width]

\* image_result = cam.GetNextImage(timeout): a frame, or SpinnakerException
\* (timeout; always when acquisition is not running)
GetNextImage ==
  /\ pc = "GetNextImage"
  /\ fetches' = fetches + 1
  /\ \/ /\ streaming
        /\ \E incomplete \in BOOLEAN :
             /\ IF incomplete THEN incompletes < MaxIncomplete
                              ELSE frame_count < MaxFrames
             /\ image' = Fetched(incomplete)
             /\ incompletes' = IF incomplete THEN incompletes + 1 ELSE incompletes
        /\ pc' = "IsIncomplete"
        /\ UNCHANGED exc
     \/ /\ exc' = "SpinnakerException"
        /\ pc' = "EndAcquisition"
        /\ UNCHANGED <<image, incompletes>>
  /\ UNCHANGED <<flow, modeRejected, stop, keyChecks,
                 save_every_n_frames, req, dev, writes, pixfmt, nameApi,
                 numCams, sessionHeld, listHeld, camInit, streaming, acqMode,
                 frame_bgr, frame_count, saved, displayed, fileWritten,
                 teardown>>

\* variant of IncompleteBranch that never takes the incomplete path
IncompleteBranch_Never(img) == FALSE

\* the test `if image_result.IsIncomplete()'
IncompleteBranch(img) == img.incomplete

\* incomplete: Release() and `continue' (loop) / `return None' (single frame)
IsIncomplete ==
  /\ pc = "IsIncomplete"
  /\ IF IncompleteBranch(image)
     THEN /\ image' = [image EXCEPT !.releases = @ + 1]
          /\ pc' = IF flow = "continuous" THEN "GetNextImage" ELSE "EndAcquisition"
     ELSE /\ pc' = "Convert"
          /\ UNCHANGED image
  /\ UNCHANGED <<flow, modeRejected, fetches, stop, keyChecks,
                 save_every_n_frames, req, dev, writes, pixfmt, nameApi,
                 numCams, sessionHeld, listHeld, camInit, streaming, acqMode,
                 frame_bgr, frame_count, incompletes, saved, displayed,
                 fileWritten, exc, teardown>>

\* frame_bgr = convert_image_to_bgr(image_result)
Convert ==
  /\ pc = "Convert"
  /\ LET r == convert_image_to_bgr(image)
     IN  IF r.raised
         THEN /\ exc' = "cv2.error"
              /\ pc' = "EndAcquisition"
              /\ UNCHANGED frame_bgr
         ELSE /\ frame_bgr' = r
              /\ pc' = "Release"
              /\ UNCHANGED exc
  /\ UNCHANGED <<flow, modeRejected, fetches, stop, keyChecks,
                 save_every_n_frames, req, dev, writes, pixfmt, nameApi,
                 numCams, sessionHeld, listHeld, camInit, streaming, acqMode,
                 image, frame_count, incompletes, saved, displayed,
                 fileWritten, teardown>>

\* image_result.Release() after the conversion
Release ==
  /\ pc = "Release"
  /\ image' = [image EXCEPT !.releases = @ + 1]
  /\ pc' = IF flow = "continuous" THEN "Process" ELSE "EndAcquisition"
  /\ UNCHANGED <<flow, modeRejected, fetches, stop, keyChecks,
                 save_every_n_frames, req, dev, writes, pixfmt, nameApi,
                 numCams, sessionHeld, listHeld, camInit, streaming, acqMode,
                 frame_bgr, frame_count, incompletes, saved, displayed,
                 fileWritten, exc, teardown>>

\* rest of a loop iteration: count, overlay, save on cadence, show, key check
Process ==
  /\ pc = "Process"
  /\ frame_count' = frame_count + 1
  /\ saved' = IF ShouldSave(frame_count', save_every_n_frames)
              THEN Append(saved, frame_count') ELSE saved
  /\ displayed' = displayed + 1
  /\ keyChecks' = keyChecks + 1
  /\ LET q_pressed == stop
     IN  pc' = IF q_pressed THEN "EndAcquisition" ELSE "GetNextImage"
  /\ UNCHANGED <<flow, modeRejected, fetches, stop,
                 save_every_n_frames, req, dev, writes, pixfmt, nameApi,
                 numCams, sessionHeld, listHeld, camInit, streaming, acqMode,
                 image, frame_bgr, incompletes, fileWritten, exc, teardown>>

\* single frame: cv2.imwrite(output_path, frame)
SaveSingleFrame ==
  /\ pc = "imwrite"
  /\ fileWritten' = TRUE
  /\ pc' = "DeInit"
  /\ UNCHANGED <<flow, modeRejected, fetches, stop, keyChecks,
                 save_every_n_frames, req, dev, writes, pixfmt, nameApi,
                 numCams, sessionHeld, listHeld, camInit, streaming, acqMode,
                 image, frame_bgr, frame_count, incompletes, saved, displayed,
                 exc, teardown>>

\* positions inside the `while True' loop
LoopPositions == {"GetNextImage", "IsIncomplete", "Convert", "Release", "Process"}

\* the user presses 'q' while the loop runs; the key stays pending until polled
PressQ ==
  /\ flow = "continuous"
  /\ pc \in LoopPositions
  /\ ~stop
  /\ stop' = TRUE
  /\ UNCHANGED <<pc, flow, modeRejected, fetches, keyChecks,
                 save_every_n_frames, req, dev, writes, pixfmt, nameApi,
                 numCams, sessionHeld, listHeld, camInit, streaming, acqMode,
                 image, frame_bgr, frame_count, incompletes, saved, displayed,
                 fileWritten, exc, teardown>>

(***************************************************************************)
(* Cleanup.                                                                *)
(***************************************************************************)
\* continuous flow: try: cam.EndAcquisition() except SpinnakerException: pass
EndAcquisitionGuarded ==
  /\ pc = "EndAcquisition"
  /\ flow = "continuous"
  /\ \E ok \in BOOLEAN :
       \* stopping a camera that is not streaming raises
       LET stopped == ok /\ streaming
       IN  /\ Attempt("EndAcquisition", stopped)
           /\ streaming' = IF stopped THEN FALSE ELSE streaming
  /\ pc' = "DeInit"
  /\ UNCHANGED <<flow, modeRejected, fetches, stop, keyChecks,
                 save_every_n_frames, req, dev, writes, pixfmt, nameApi,
                 numCams, sessionHeld, listHeld, camInit, acqMode, image,
                 frame_bgr, frame_count, incompletes, saved, displayed,
                 fileWritten, exc>>

\* single frame: finally: cam.EndAcquisition(), then back in lab2_single_frame
EndAcquisitionSingle ==
  /\ pc = "EndAcquisition"
  /\ flow = "single"
  /\ \E ok \in BOOLEAN :
       LET stopped == ok /\ streaming
       IN  /\ Attempt("EndAcquisition", stopped)
           /\ streaming' = IF stopped THEN FALSE ELSE streaming
           /\ exc' = IF stopped THEN exc ELSE "SpinnakerException"
           \* `if frame is None: return' when no exception is in flight
           /\ pc' = IF stopped /\ exc = "none" /\ frame_bgr # NoFrame
                    THEN "imwrite" ELSE "DeInit"
  /\ UNCHANGED <<flow, modeRejected, fetches, stop, keyChecks,
                 save_every_n_frames, req, dev, writes, pixfmt, nameApi,
                 numCams, sessionHeld, listHeld, camInit, acqMode, image,
                 frame_bgr, frame_count, incompletes, saved, displayed,
                 fileWritten>>

\* finally: cam.DeInit()
DeInit ==
  /\ pc = "DeInit"
  /\ \E ok \in BOOLEAN :
       /\ Attempt("DeInit", ok)
       /\ camInit' = IF ok THEN FALSE ELSE camInit
       /\ streaming' = IF ok THEN FALSE ELSE streaming
       /\ exc' = IF ok THEN exc ELSE "SpinnakerException"
       /\ pc' = IF ok THEN "Clear" ELSE "done"
  /\ UNCHANGED <<flow, modeRejected, fetches, stop, keyChecks,
                 save_every_n_frames, req, dev, writes, pixfmt, nameApi,
                 numCams, sessionHeld, listHeld, acqMode, image, frame_bgr,
                 frame_count, incompletes, saved, displayed, fileWritten>>

\* finally: del cam; cam_list.Clear()
Clear ==
  /\ pc = "Clear"
  /\ \E ok \in BOOLEAN :
       /\ Attempt("Clear", ok)
       /\ listHeld' = IF ok THEN FALSE ELSE listHeld
       /\ exc' = IF ok THEN exc ELSE "SpinnakerException"
       /\ pc' = IF ok THEN "ReleaseInstance" ELSE "done"
  /\ UNCHANGED <<flow, modeRejected, fetches, stop, keyChecks,
                 save_every_n_frames, req, dev, writes, pixfmt, nameApi,
                 numCams, sessionHeld, camInit, streaming, acqMode, image,
                 frame_bgr, frame_count, incompletes, saved, displayed,
                 fileWritten>>

\* finally: system.ReleaseInstance() (then destroyAllWindows in the loop script)
ReleaseInstance ==
  /\ pc = "ReleaseInstance"
  /\ \E ok \in BOOLEAN :
       /\ Attempt("ReleaseInstance", ok)
       /\ sessionHeld' = IF ok THEN FALSE ELSE sessionHeld
       /\ exc' = IF ok THEN exc ELSE "SpinnakerException"
  /\ pc' = "done"
  /\ UNCHANGED <<flow, modeRejected, fetches, stop, keyChecks,
                 save_every_n_frames, req, dev, writes, pixfmt, nameApi,
                 numCams, listHeld, camInit, streaming, acqMode, image,
                 frame_bgr, frame_count, incompletes, saved, displayed,
                 fileWritten>>

Next ==
  \/ GetCameras
  \/ NoCameraClear
  \/ NoCameraRelease
  \/ CamInit
  \/ SetPixelFormat
  \/ Configure
  \/ StartContinuous
  \/ SelectSingleFrame
  \/ GetNextImage
  \/ IsIncomplete
  \/ Convert
  \/ Release
  \/ Process
  \/ PressQ
  \/ SaveSingleFrame
  \/ EndAcquisitionGuarded
  \/ EndAcquisitionSingle
  \/ DeInit
  \/ Clear
  \/ ReleaseInstance

Spec == Init /\ [][Next]_vars

(***************************************************************************)
(* NormSpec: convert_image_to_bgr on its own.                              *)
(***************************************************************************)
RECURSIVE CaseVariants(_)
\* every spelling of a tag that differs only in letter case
CaseVariants(tag) ==
  IF tag = <<>> THEN {<<>>}
  ELSE { <<c>> \o rest : c \in {UpperChar(Head(tag)), LowerChar(Head(tag))},
                         rest \in CaseVariants(Tail(tag)) }

BayerTags == {BayerRG8, BayerGB8, BayerGR8, BayerBG8}

SupportedTags == {Mono8, RGB8, BGR8} \cup BayerTags

\* height, width of the buffers tried
TestShapes == {<<2, 4>>, <<6, 2>>}

TestNames ==
  UNION {CaseVariants(t) : t \in SupportedTags} \cup {RGB8Packed, YUV422, NoName}

TestImages ==
  { [present |-> TRUE, incomplete |-> FALSE, releases |-> 0,
     name |-> n, ch |-> c, h |-> shape[1], w |-> shape[2]] :
       n \in TestNames, c \in {1, 3}, shape \in TestShapes }

NormInit ==
  /\ pc = "Normalize"
  /\ flow = "normalizer"
  /\ save_every_n_frames = 10
  /\ req = CallSiteRequest
  /\ dev = CHOOSE d \in FlowDevices : d.offsetYWritable
  /\ image \in TestImages
  /\ pixfmt = image.name
  /\ nameApi = (image.name # NoName)
  /\ Constructed

\* one call of convert_image_to_bgr; the raising branch is kept for inspection
Normalize ==
  /\ pc = "Normalize"
  /\ frame_bgr' = convert_image_to_bgr(image)
  /\ exc' = IF frame_bgr'.raised THEN "cv2.error" ELSE exc
  /\ pc' = "Normalized"
  /\ UNCHANGED <<flow, modeRejected, fetches, stop, keyChecks,
                 save_every_n_frames, req, dev, writes, pixfmt, nameApi,
                 numCams, sessionHeld, listHeld, camInit, streaming, acqMode,
                 image, frame_count, incompletes, saved, displayed,
                 fileWritten, teardown>>

NormNext == Normalize

NormSpec == NormInit /\ [][NormNext]_vars

(***************************************************************************)
(* NegSpec: configure_camera_resolution_fps on its own.                    *)
(***************************************************************************)
Requests ==
  { [width |-> w, height |-> h, fps |-> f] :
      w \in (-3)..(MaxDim + 2), h \in {-1, 4, 5, MaxDim + 1}, f \in {0, 30, 90} }

Devices ==
  { Device(ww, hw, mw, mh, 2, 2, oxw, oyw, mo[1], mo[2], few, fw, 60, 1) :
      ww \in BOOLEAN, hw \in BOOLEAN,
      mw \in (MaxDim - 1)..MaxDim, mh \in (MaxDim - 1)..MaxDim,
      oxw \in BOOLEAN, oyw \in BOOLEAN, mo \in {<<10, 20>>, <<7, 0>>},
      few \in BOOLEAN, fw \in BOOLEAN }

NegInit ==
  /\ pc = "Negotiate"
  /\ flow = "negotiator"
  /\ save_every_n_frames = 10
  /\ req \in Requests
  /\ dev \in Devices
  /\ pixfmt = RGB8
  /\ nameApi = TRUE
  /\ image = NoImage
  /\ Constructed

\* one call of configure_camera_resolution_fps
Negotiate ==
  /\ pc = "Negotiate"
  /\ writes' = configure_camera_resolution_fps(req, dev)
  /\ pc' = "Negotiated"
  /\ UNCHANGED <<flow, modeRejected, fetches, stop, keyChecks,
                 save_every_n_frames, req, dev, pixfmt, nameApi, numCams,
                 sessionHeld, listHeld, camInit, streaming, acqMode, image,
                 frame_bgr, frame_count, incompletes, saved, displayed,
                 fileWritten, exc, teardown>>

NegNext == Negotiate

NegSpec == NegInit /\ [][NegNext]_vars

(***************************************************************************)
(* Properties.                                                             *)
(***************************************************************************)
Flows == {"single", "continuous"}

TeardownOrder == <<"EndAcquisition", "DeInit", "Clear", "ReleaseInstance">>

Rank(step) == CHOOSE i \in 1..Len(TeardownOrder) : TeardownOrder[i] = step

\* C1: in both capture flows, once a camera has been taken from the list,
\* every exit path attempts close device, clear device list and release
\* session, the cleanup calls run in the order stop acquisition, close device,
\* clear device list, release session, and the run never ends with the
\* device open or the session (or list) still held.
C1_TeardownOnEveryExit ==
  (flow \in Flows /\ numCams > 0 /\ pc = "done") =>
     /\ \A i, j \in 1..Len(teardown) :
          i < j => Rank(teardown[i].step) < Rank(teardown[j].step)
     /\ \A r \in 2..Len(TeardownOrder) :
          \E i \in 1..Len(teardown) : teardown[i].step = TeardownOrder[r]
     /\ ~streaming
     /\ ~camInit
     /\ ~listHeld
     /\ ~sessionHeld

\* C2: when a cleanup step fails, every step after it in the cleanup order
\* is still attempted before the run ends.
C2_FailedStepDoesNotStopLaterSteps ==
  (flow \in Flows /\ pc = "done") =>
     \A i \in 1..Len(teardown) :
        ~teardown[i].ok =>
           \A r \in (Rank(teardown[i].step) + 1)..Len(TeardownOrder) :
              \E j \in (i + 1)..Len(teardown) :
                 teardown[j].step = TeardownOrder[r]

\* positions at which no fetched frame may still be unreleased
BetweenFrames ==
  {"GetNextImage", "EndAcquisition", "imwrite", "DeInit", "Clear",
   "ReleaseInstance", "done"}

\* C3: every fetched frame is released exactly once, before the next fetch
\* and before cleanup, whatever path the caller leaves by; never twice.
C3_EveryFrameReleasedOnce ==
  flow \in Flows =>
     /\ image.releases <= 1
     /\ (image.present /\ pc \in BetweenFrames) => image.releases = 1

\* C4: an incomplete frame is released at once and never reaches the
\* normalizer, the frame counter, a save or the display; the loop goes on to
\* the next fetch, the single-frame run ends without writing a file.
C4_IncompleteFrameSkipped ==
  /\ [](flow \in Flows =>
          /\ (pc \in {"Convert", "Release", "Process", "imwrite"}
                => ~image.incomplete)
          /\ (flow = "single" /\ image.incomplete => ~fileWritten))
  \* the script's own step from the incomplete test (a key press is not one)
  /\ [][(flow \in Flows /\ pc = "IsIncomplete" /\ image.incomplete
           /\ pc' # pc) =>
          /\ image'.releases = 1
          /\ frame_count' = frame_count
          /\ frame_bgr' = frame_bgr
          /\ saved' = saved
          /\ displayed' = displayed
          /\ fileWritten' = fileWritten
          /\ pc' = IF flow = "continuous" THEN "GetNextImage"
                   ELSE "EndAcquisition"]_vars

\* an incomplete frame was skipped after earlier frames had been saved
C4_Witness ==
  /\ flow = "continuous" /\ pc = "GetNextImage"
  /\ image.incomplete /\ image.releases = 1
  /\ frame_count = 3 /\ displayed = 3 /\ Len(saved) = 1

\* C5: with cadence N the loop saves exactly the frames whose running count
\* is a positive multiple of N, the saved index being that count (so the
\* indexes strictly increase); N = 10 and 35 frames give 10, 20, 30.
C5_SaveCadence ==
  flow = "continuous" =>
     /\ saved = [k \in 1..(frame_count \div save_every_n_frames)
                   |-> k * save_every_n_frames]
     /\ \A i \in 1..(Len(saved) - 1) : saved[i] < saved[i + 1]
     /\ (save_every_n_frames = 10 /\ frame_count = 35) => saved = <<10, 20, 30>>

\* 35 frames at cadence 10
C5_Witness ==
  /\ flow = "continuous" /\ save_every_n_frames = 10
  /\ frame_count = 35 /\ saved = <<10, 20, 30>>

\* the demosaic code that belongs to a Bayer tag
DemosaicFor(tag) ==
  IF tag = BAYERRG8 THEN "COLOR_BAYER_RG2BGR"
  ELSE IF tag = BAYERGB8 THEN "COLOR_BAYER_GB2BGR"
  ELSE IF tag = BAYERGR8 THEN "COLOR_BAYER_GR2BGR"
  ELSE "COLOR_BAYER_BG2BGR"

\* C6: for each of the four Bayer tags, in any letter case, the dispatch
\* selects the demosaic of that same pattern.
C6_BayerDispatch ==
  (pc = "Normalized" /\ upper(image.name) \in {upper(t) : t \in BayerTags}) =>
     frame_bgr.branch = DemosaicFor(upper(image.name))

\* C7: for every supported tag and a buffer of the layout the tag implies,
\* the normalizer does not raise and returns 3 channels with the input's
\* height and width.
C7_ThreeChannelsSameSize ==
  (/\ pc = "Normalized"
   /\ upper(image.name) \in {upper(t) : t \in SupportedTags}
   /\ image.ch = LayoutOf(image.name)) =>
     /\ ~frame_bgr.raised
     /\ frame_bgr.ch = 3
     /\ frame_bgr.h = image.h
     /\ frame_bgr.w = image.w

\* min(requested, max) rounded down to the nearest even number
EvenFloorOfMin(requested, max) ==
  LET m == IF requested > max THEN max ELSE requested
  IN  CHOOSE e \in (m - 1)..m : e % 2 = 0

\* what C8 says of one axis
AxisAsClaimed(written, requested, max) ==
  /\ written = <<EvenFloorOfMin(requested, max)>>
  /\ requested > max => written = <<2 * (max \div 2)>>
  /\ (requested <= max /\ requested % 2 = 1) => written = <<requested - 1>>
  /\ (requested <= max /\ requested % 2 = 0) => written = <<requested>>

\* C8: when width and height are both writable, each axis is written as
\* min(requested, device-max) rounded down to even.
C8_SizeClampedAndEven ==
  (pc = "Negotiated" /\ dev.widthWritable /\ dev.heightWritable) =>
     /\ AxisAsClaimed(writes.Width, req.width, dev.maxWidth)
     /\ AxisAsClaimed(writes.Height, req.height, dev.maxHeight)

\* a request above an odd maximum on one axis, an odd request in bounds on the other
C8_Witness ==
  /\ pc = "Negotiated" /\ dev.widthWritable /\ dev.heightWritable
  /\ req.width > dev.maxWidth /\ dev.maxWidth % 2 = 1
  /\ writes.Width = <<dev.maxWidth - 1>>
  /\ req.height = 5 /\ writes.Height = <<4>>

\* C9: every value written for width, height and frame rate lies within the
\* device-reported bounds of its property (and width/height are never below 0).
C9_WrittenWithinBounds ==
  pc = "Negotiated" =>
     /\ \A i \in 1..Len(writes.Width) :
          /\ writes.Width[i] >= 0
          /\ writes.Width[i] >= dev.minWidth
          /\ writes.Width[i] <= dev.maxWidth
     /\ \A i \in 1..Len(writes.Height) :
          /\ writes.Height[i] >= 0
          /\ writes.Height[i] >= dev.minHeight
          /\ writes.Height[i] <= dev.maxHeight
     /\ \A i \in 1..Len(writes.AcquisitionFrameRate) :
          /\ writes.AcquisitionFrameRate[i] >= dev.minFps
          /\ writes.AcquisitionFrameRate[i] <= dev.maxFps

\* C10 as stated: each axis on its own is written with floor(max/2) when its
\* offset is writable and skipped otherwise.
C10_OffsetsPerAxis ==
  pc = "Negotiated" =>
     /\ writes.OffsetX = IF dev.offsetXWritable
                         THEN <<dev.maxOffsetX \div 2>> ELSE <<>>
     /\ writes.OffsetY = IF dev.offsetYWritable
                         THEN <<dev.maxOffsetY \div 2>> ELSE <<>>

\* C10 amended: when both offsets are writable, each axis is written once with
\* floor(max/2), (10,20) giving (5,10); when either is not writable neither
\* axis is written, and nothing fails.
C10_OffsetsBothOrNone ==
  pc = "Negotiated" =>
     /\ exc = "none"
     /\ IF dev.offsetXWritable /\ dev.offsetYWritable
        THEN /\ Len(writes.OffsetX) = 1 /\ Len(writes.OffsetY) = 1
             /\ 2 * writes.OffsetX[1] \in {dev.maxOffsetX - 1, dev.maxOffsetX}
             /\ 2 * writes.OffsetY[1] \in {dev.maxOffsetY - 1, dev.maxOffsetY}
             /\ (dev.maxOffsetX = 10 /\ dev.maxOffsetY = 20)
                   => (writes.OffsetX = <<5>> /\ writes.OffsetY = <<10>>)
        ELSE writes.OffsetX = <<>> /\ writes.OffsetY = <<>>

\* offsets (10,20) centred to (5,10)
C10_Witness ==
  /\ pc = "Negotiated"
  /\ dev.offsetXWritable /\ dev.offsetYWritable
  /\ dev.maxOffsetX = 10 /\ dev.maxOffsetY = 20
  /\ writes.OffsetX = <<5>> /\ writes.OffsetY = <<10>>

\* positions of the cleanup code and the end of the run
CleanupPositions == {"EndAcquisition", "DeInit", "Clear", "ReleaseInstance", "done"}

\* C11: when AcquisitionMode is not writable the failure reaches the caller:
\* the run goes to cleanup, acquisition is never started and no fetch is
\* issued afterwards; a fetch is only ever issued while acquisition runs.
C11_ModeRejectionStopsRun ==
  flow \in Flows =>
     /\ modeRejected =>
          /\ pc \in CleanupPositions
          /\ ~streaming
          /\ acqMode = "unset"
          /\ fetches = 0
     /\ pc = "GetNextImage" => streaming

\* C12: the loop polls the stop signal exactly once in every iteration, an
\* iteration with an incomplete frame included, so no iteration ends back at
\* the loop head while the signal is raised; the loop is left only on the
\* stop signal or a failed fetch, and cleanup follows.
C12_StopCheckedEveryIteration ==
  /\ []((flow = "continuous" /\ pc = "GetNextImage")
          => keyChecks = frame_count + incompletes)
  /\ [][(flow = "continuous" /\ stop /\ pc \in {"IsIncomplete", "Process"})
          => pc' # "GetNextImage"]_vars
  /\ [][(flow = "continuous" /\ pc \in LoopPositions /\ pc' \notin LoopPositions)
          => /\ pc' = "EndAcquisition"
             /\ stop \/ pc = "GetNextImage"]_vars

\* C13: when no camera is enumerated, no device is opened, no property is
\* written, no acquisition is started and no frame is fetched or saved; the
\* device list is cleared and then the session released, each exactly once.
C13_NoCameraRun ==
  (flow \in Flows /\ numCams = 0 /\ pc # "GetCameras") =>
     /\ pc \in {"NoCameraClear", "NoCameraRelease", "done"}
     /\ ~camInit
     /\ writes = NoWrites
     /\ acqMode = "unset" /\ ~streaming
     /\ fetches = 0 /\ saved = <<>> /\ ~fileWritten
     /\ pc = "done" =>
          /\ teardown = <<[step |-> "Clear", ok |-> TRUE],
                          [step |-> "ReleaseInstance", ok |-> TRUE]>>
          /\ ~listHeld
          /\ ~sessionHeld

====
